---- MODULE Spec2Model ----
(***************************************************************************)
(* Employee assignment management: the three tables LIEU, EMPLOYE and      *)
(* AFFECTER behind one sqlite3 connection, and the operations of the       *)
(* controllers (src/src/controllers), of the Database class                *)
(* (src/src/models/database.py) and of the single-file GUI (src/main.py).  *)
(*                                                                         *)
(* Identifiers are sequences of characters, dates are day numbers (the     *)
(* code compares 'YYYY-MM-DD' strings, whose order is the order of the     *)
(* days), NULL is the SQL null.                                            *)
(***************************************************************************)
EXTENDS Integers, FiniteSets, Sequences, TLC

\* generated is a history variable: the identifiers that the creates of
\* SpecIds have generated so far
VARIABLES LIEU, EMPLOYE, AFFECTER, disk, inTxn, last, calls, generated

vars == <<LIEU, EMPLOYE, AFFECTER, disk, inTxn, last, calls, generated>>

----------------------------------------------------------------------------
(* Bounds of the model *)

\* date.today(), as a day number; later days are in the future
Today == 5
\* the dates of the requests are Today - PastSpan .. Today
PastSpan == 1
\* largest numeric suffix an identifier generated in the model may have
MaxIdNum == 1
\* most rows of EMPLOYE a create is attempted on
MaxEmployees == 3
\* most rows of AFFECTER a create with a generated identifier is attempted on
MaxRows == 3

----------------------------------------------------------------------------
(* Values *)

\* SQL NULL / Python None: a value that is no identifier
NULL == <<"NULL">>
NoId == <<>>
UNKNOWN == <<"U", "N", "K", "N", "O", "W", "N">>

L1 == <<"L", "1">>
L2 == <<"L", "2">>
E1 == <<"E", "0", "0", "1">>
E2 == <<"E", "0", "0", "2">>
A1 == <<"A", "0", "0", "1">>
A2 == <<"A", "0", "0", "2">>
L3 == <<"L", "3">>
E3 == <<"E", "0", "0", "3">>

LocIds == {L1, L2}
EmpIds == {E1, E2}
AffIds == {A1, A2}
\* an empty date field
NoDate == 0
Dates == (Today - PastSpan)..Today

\* str.strip(): the text without its leading and trailing blanks
RECURSIVE StripLeft(_)
StripLeft(s) == IF Len(s) > 0 /\ Head(s) = " " THEN StripLeft(Tail(s)) ELSE s

RECURSIVE StripRight(_)
StripRight(s) ==
  IF Len(s) > 0 /\ s[Len(s)] = " " THEN StripRight(SubSeq(s, 1, Len(s) - 1)) ELSE s

Strip(s) == StripRight(StripLeft(s))

UpperCase ==
  <<"A", "B", "C", "D", "E", "F", "G", "H", "I", "J", "K", "L", "M",
    "N", "O", "P", "Q", "R", "S", "T", "U", "V", "W", "X", "Y", "Z">>

LowerCase ==
  <<"a", "b", "c", "d", "e", "f", "g", "h", "i", "j", "k", "l", "m",
    "n", "o", "p", "q", "r", "s", "t", "u", "v", "w", "x", "y", "z">>

LowerChar(ch) ==
  IF \E i \in DOMAIN UpperCase : UpperCase[i] = ch
  THEN LowerCase[CHOOSE i \in DOMAIN UpperCase : UpperCase[i] = ch]
  ELSE ch

\* str.lower()
Lower(s) == [i \in 1..Len(s) |-> LowerChar(s[i])]

\* the mail the rows of the initial store carry: the identifier in lower
\* case followed by "@"
MailOf(id) == Lower(id) \o <<"@">>

LieuRow(id) == [idlieu |-> id, design |-> <<"d">>, province |-> <<"p">>]

EmployeRow(id, lieu) ==
  [numEmp |-> id, civilite |-> <<"M", "r">>, nom |-> <<"n">>, prenom |-> <<"p">>,
   mail |-> MailOf(id), poste |-> <<"j">>, idlieu |-> lieu]

AffecterRow(id, emp, anc, nouv, da, dp) ==
  [numAffect |-> id, numEmp |-> emp, AncienLieu |-> anc, NouveauLieu |-> nouv,
   dateAffect |-> da, datePriseService |-> dp]

----------------------------------------------------------------------------
(* The sqlite3 connection: the tables as the connection sees them, the      *)
(* tables as last committed, and whether a transaction is open.            *)

Tables(c) == [L |-> c.L, E |-> c.E, A |-> c.A]

Conn == [L |-> LIEU, E |-> EMPLOYE, A |-> AFFECTER, disk |-> disk, txn |-> inTxn]

\* cursor.execute("BEGIN TRANSACTION"): an error inside a transaction
SqlBegin(c) ==
  IF c.txn THEN [c |-> c, err |-> TRUE]
  ELSE [c |-> [c EXCEPT !.txn = TRUE], err |-> FALSE]

\* the sqlite3 module opens a transaction before INSERT/UPDATE/DELETE
ImplicitBegin(c) == [c EXCEPT !.txn = TRUE]

SqlCommit(c) == [c EXCEPT !.disk = Tables(c), !.txn = FALSE]

SqlRollback(c) ==
  [c EXCEPT !.L = c.disk.L, !.E = c.disk.E, !.A = c.disk.A, !.txn = FALSE]

\* INSERT INTO AFFECTER into a table without a key
InsertAffecterNoKey(c, row) ==
  [c |-> [ImplicitBegin(c) EXCEPT !.A = @ \cup {row}], err |-> FALSE]

\* INSERT INTO AFFECTER: numAffect is the primary key
InsertAffecter(c, row) ==
  LET d == ImplicitBegin(c) IN
  IF \E r \in d.A : r.numAffect = row.numAffect
  THEN [c |-> d, err |-> TRUE]
  ELSE [c |-> [d EXCEPT !.A = @ \cup {row}], err |-> FALSE]

\* UPDATE EMPLOYE SET idlieu = ? without the WHERE clause
UpdateIdlieuOfAll(c, lieu, emp) ==
  [ImplicitBegin(c) EXCEPT !.E = {[e EXCEPT !.idlieu = lieu] : e \in @}]

\* UPDATE EMPLOYE SET idlieu = ? WHERE numEmp = ?
UpdateIdlieu(c, lieu, emp) ==
  [ImplicitBegin(c) EXCEPT
     !.E = {IF e.numEmp = emp THEN [e EXCEPT !.idlieu = lieu] ELSE e : e \in @}]

\* UPDATE AFFECTER SET ... WHERE numAffect = ?
UpdateAffecter(c, id, row) ==
  [c |-> [ImplicitBegin(c) EXCEPT
            !.A = {IF r.numAffect = id THEN [row EXCEPT !.numAffect = id] ELSE r : r \in @}],
   rowcount |-> Cardinality({r \in c.A : r.numAffect = id})]

\* DELETE FROM AFFECTER WHERE numAffect = ?
DeleteAffecter(c, id) ==
  [c |-> [ImplicitBegin(c) EXCEPT !.A = {r \in @ : r.numAffect # id}],
   rowcount |-> Cardinality({r \in c.A : r.numAffect = id})]

\* DELETE FROM LIEU WHERE idlieu = ?  (foreign keys are not enforced)
DeleteLieu(c, id) ==
  [c |-> [ImplicitBegin(c) EXCEPT !.L = {l \in @ : l.idlieu # id}],
   rowcount |-> Cardinality({l \in c.L : l.idlieu = id})]

\* DELETE FROM EMPLOYE WHERE numEmp = ?
DeleteEmploye(c, id) ==
  [c |-> [ImplicitBegin(c) EXCEPT !.E = {e \in @ : e.numEmp # id}],
   rowcount |-> Cardinality({e \in c.E : e.numEmp = id})]

\* INSERT INTO LIEU: idlieu is the primary key
InsertLieu(c, row) ==
  LET d == ImplicitBegin(c) IN
  IF \E l \in d.L : l.idlieu = row.idlieu
  THEN [c |-> d, err |-> TRUE]
  ELSE [c |-> [d EXCEPT !.L = @ \cup {row}], err |-> FALSE]

\* UPDATE LIEU SET design = ?, province = ? WHERE idlieu = ?
UpdateLieu(c, id, row) ==
  [c |-> [ImplicitBegin(c) EXCEPT
            !.L = {IF l.idlieu = id
                   THEN [l EXCEPT !.design = row.design, !.province = row.province]
                   ELSE l : l \in @}],
   rowcount |-> Cardinality({l \in c.L : l.idlieu = id})]

\* the titles the CHECK constraint of EMPLOYE.civilite and Employee.validate accept
CIVILITE_OPTIONS == {<<"M", "r">>, <<"M", "m", "e">>, <<"M", "l", "l", "e">>}

\* INSERT INTO EMPLOYE into a table whose numEmp is not a key
InsertEmployeNoKey(c, row) ==
  LET d == ImplicitBegin(c) IN
  IF \/ \E e \in d.E : e.mail = row.mail
     \/ row.civilite \notin CIVILITE_OPTIONS
  THEN [c |-> d, err |-> TRUE]
  ELSE [c |-> [d EXCEPT !.E = @ \cup {row}], err |-> FALSE]

\* INSERT INTO EMPLOYE: numEmp is the primary key, mail is UNIQUE, civilite
\* is CHECKed, every column but idlieu is NOT NULL
InsertEmploye(c, row) ==
  LET d == ImplicitBegin(c) IN
  IF \/ \E e \in d.E : e.numEmp = row.numEmp \/ e.mail = row.mail
     \/ row.civilite \notin CIVILITE_OPTIONS
     \/ \E f \in {"numEmp", "civilite", "nom", "prenom", "mail", "poste"} : row[f] = NULL
  THEN [c |-> d, err |-> TRUE]
  ELSE [c |-> [d EXCEPT !.E = @ \cup {row}], err |-> FALSE]

\* UPDATE EMPLOYE SET civilite = ?, nom = ?, prenom = ?, mail = ?, poste = ?,
\* idlieu = ? WHERE numEmp = ?
UpdateEmploye(c, id, row) ==
  LET d == ImplicitBegin(c)
      n == Cardinality({e \in c.E : e.numEmp = id})
  IN IF /\ n > 0
        /\ \/ \E e \in d.E : e.numEmp # id /\ e.mail = row.mail
           \/ row.civilite \notin CIVILITE_OPTIONS
           \/ \E f \in {"civilite", "nom", "prenom", "mail", "poste"} : row[f] = NULL
     THEN [c |-> d, err |-> TRUE, rowcount |-> 0]
     ELSE [c |-> [d EXCEPT !.E = {IF e.numEmp = id THEN [row EXCEPT !.numEmp = id]
                                  ELSE e : e \in @}],
           err |-> FALSE, rowcount |-> n]

\* (dateAffect, datePriseService) of r1 is before that of r2
Older(r1, r2) ==
  \/ r1.dateAffect < r2.dateAffect
  \/ r1.dateAffect = r2.dateAffect /\ r1.datePriseService < r2.datePriseService

RowsOf(A, emp) == {r \in A : r.numEmp = emp}

\* SELECT ... WHERE numEmp = ? ORDER BY dateAffect DESC, datePriseService DESC
\* LIMIT 1: the rows the query may return (rows with equal dates are in
\* no defined order); empty when the employee has no row
LatestRows(A, emp) ==
  {r \in RowsOf(A, emp) : \A s \in RowsOf(A, emp) : ~Older(r, s)}

----------------------------------------------------------------------------
(* Identifier generation, src/src/controllers/base_controller.py *)

Digits == <<"0", "1", "2", "3", "4", "5", "6", "7", "8", "9">>

IsDigit(ch) == \E i \in 1..10 : Digits[i] = ch

DigitVal(ch) == (CHOOSE i \in 1..10 : Digits[i] = ch) - 1

\* id_str.startswith(prefix)
StartsWith(s, prefix) ==
  Len(s) >= Len(prefix) /\ SubSeq(s, 1, Len(prefix)) = prefix

\* int(text) ignores the blanks around the text and accepts a leading sign
IntBody(s) ==
  LET t == Strip(s) IN
  IF Len(t) > 0 /\ t[1] \in {"+", "-"} THEN Tail(t) ELSE t

\* int(text) succeeds: after the sign, a non-empty run of decimal digits,
\* in which single underscores may separate digits
IsInt(s) ==
  LET b == IntBody(s) IN
  /\ Len(b) > 0
  /\ \A i \in 1..Len(b) :
       \/ IsDigit(b[i])
       \/ /\ b[i] = "_"
          /\ 1 < i /\ i < Len(b)
          /\ IsDigit(b[i - 1]) /\ IsDigit(b[i + 1])

RECURSIVE ParseDigits(_)
ParseDigits(s) ==
  IF Len(s) = 0 THEN 0
  ELSE IF s[Len(s)] = "_" THEN ParseDigits(SubSeq(s, 1, Len(s) - 1))
  ELSE 10 * ParseDigits(SubSeq(s, 1, Len(s) - 1)) + DigitVal(s[Len(s)])

\* int(text), for a text IsInt accepts
ParseInt(s) ==
  IF Head(Strip(s)) = "-" THEN 0 - ParseDigits(IntBody(s)) ELSE ParseDigits(IntBody(s))

RECURSIVE DecimalDigits(_)
DecimalDigits(n) ==
  IF n < 10 THEN <<Digits[n + 1]>>
  ELSE DecimalDigits(n \div 10) \o <<Digits[(n % 10) + 1]>>

RECURSIVE PadLeft(_, _)
PadLeft(s, width) == IF Len(s) >= width THEN s ELSE PadLeft(<<"0">> \o s, width)

\* f"{n:03d}": at least three characters, the sign of a negative number
\* counted
Format03d(n) ==
  IF n < 0 THEN <<"-">> \o PadLeft(DecimalDigits(0 - n), 2)
  ELSE PadLeft(DecimalDigits(n), 3)

SetMax(S) == CHOOSE x \in S : \A y \in S : y <= x

\* the numeric parts of the identifiers that carry the prefix
IdNumbers(prefix, existing_ids) ==
  {ParseInt(SubSeq(s, Len(prefix) + 1, Len(s))) :
     s \in {t \in existing_ids :
              /\ t # NULL
              /\ StartsWith(t, prefix)
              /\ IsInt(SubSeq(t, Len(prefix) + 1, Len(t)))}}

\* numbering by the count of the numbered identifiers
NextNumByCount(prefix, existing_ids) ==
  Cardinality(IdNumbers(prefix, existing_ids)) + 1

NextNum(prefix, existing_ids) ==
  IF IdNumbers(prefix, existing_ids) = {} THEN 1
  ELSE SetMax(IdNumbers(prefix, existing_ids)) + 1

_get_next_id(prefix, existing_ids) ==
  prefix \o Format03d(NextNum(prefix, existing_ids))

\* the outcome of a call that raises
Raised == <<"raise">>

\* utils.helpers.get_next_id: the same computation without the test for an
\* empty identifier, so that None among the identifiers raises
get_next_id(prefix, existing_ids) ==
  IF NULL \in existing_ids THEN Raised ELSE _get_next_id(prefix, existing_ids)

----------------------------------------------------------------------------
(* Assignment.validate, src/src/models/assignment.py *)

Assignment_validate(a) ==
  /\ a.numAffect # NoId
  /\ a.numEmp # NoId
  /\ a.AncienLieu # NoId
  /\ a.NouveauLieu # NoId
  /\ a.AncienLieu # a.NouveauLieu
  /\ a.dateAffect # NoDate
  /\ a.datePriseService # NoDate
  /\ ~(a.datePriseService < a.dateAffect)
  /\ ~(a.dateAffect > Today)

\* BaseModel.get: SELECT * FROM <table> WHERE <primary key> = ?
\* the columns of LIEU, in the order of CREATE TABLE: the order of SELECT *
LIEU_columns == <<"idlieu", "design", "province">>

\* SELECT * on a row: the tuple of its values
SelectStar(columns, row) == [i \in DOMAIN columns |-> row[columns[i]]]

\* the fields in alphabetical order
LocationFieldsSorted == <<"design", "idlieu", "province">>

\* Location.FIELDS, in the order of the dict
Location_FIELDS == <<"idlieu", "design", "province">>

\* BaseModel.from_row on a tuple: the i-th value is the i-th field
from_row(FIELDS, t) ==
  [f \in {FIELDS[i] : i \in DOMAIN FIELDS} |->
     t[CHOOSE i \in DOMAIN FIELDS : FIELDS[i] = f]]

\* BaseModel.get for Location: SELECT * FROM LIEU WHERE idlieu = ?
Location_get(c, pk) ==
  {from_row(Location_FIELDS, SelectStar(LIEU_columns, l)) :
     l \in {x \in c.L : x.idlieu = pk}}
Employee_get(c, pk) == {e \in c.E : e.numEmp = pk}

----------------------------------------------------------------------------
(* AssignmentController, src/src/controllers/assignment_controller.py *)

\* create that moves the employee only when the new row is a most recent one
CreateChecksDates(c, a) ==
  LET b == SqlBegin(c) IN
  IF b.err THEN [c |-> SqlRollback(b.c), res |-> "error"]
  ELSE LET i == InsertAffecter(b.c, a) IN
       IF i.err THEN [c |-> SqlRollback(i.c), res |-> "error"]
       ELSE [c |-> SqlCommit(
                     IF a \in LatestRows(i.c.A, a.numEmp)
                     THEN UpdateIdlieu(i.c, a.NouveauLieu, a.numEmp)
                     ELSE i.c),
             res |-> "ok"]

\* the transaction of create: BEGIN, INSERT, UPDATE, commit; any exception
\* rolls back
CreateTxn(c, a) ==
  LET b == SqlBegin(c) IN
  IF b.err THEN [c |-> SqlRollback(b.c), res |-> "error"]
  ELSE LET i == InsertAffecter(b.c, a) IN
       IF i.err THEN [c |-> SqlRollback(i.c), res |-> "error"]
       ELSE [c |-> SqlCommit(UpdateIdlieu(i.c, a.NouveauLieu, a.numEmp)),
             res |-> "ok"]

\* create without the comparison of AncienLieu with the employee's idlieu
CreateIgnoresCurrentLocation(c, data) ==
  LET id == IF data.numAffect = NoId
            THEN _get_next_id(<<"A">>, {r.numAffect : r \in c.A})
            ELSE data.numAffect
      a == [data EXCEPT !.numAffect = Strip(id), !.numEmp = Strip(@),
                        !.AncienLieu = Strip(@), !.NouveauLieu = Strip(@)]
      reject == [c |-> c, id |-> NoId, res |-> "fail"]
  IN
  IF \/ data.numEmp = NoId \/ data.AncienLieu = NoId \/ data.NouveauLieu = NoId
     \/ data.dateAffect = NoDate \/ data.datePriseService = NoDate
  THEN reject
  ELSE IF ~Assignment_validate(a) THEN reject
  ELSE IF Employee_get(c, a.numEmp) = {} THEN reject
  ELSE IF Location_get(c, a.AncienLieu) = {} THEN reject
  ELSE IF Location_get(c, a.NouveauLieu) = {} THEN reject
  ELSE LET t == CreateTxn(c, a) IN
       [c |-> t.c, id |-> IF t.res = "ok" THEN a.numAffect ELSE NoId, res |-> t.res]

\* create(data): required fields, generated identifier, validation, lookups,
\* the comparison of AncienLieu with the employee's idlieu, the transaction
AssignmentController_create(c, data) ==
  LET id == IF data.numAffect = NoId
            THEN _get_next_id(<<"A">>, {r.numAffect : r \in c.A})
            ELSE data.numAffect
      a == [data EXCEPT !.numAffect = Strip(id), !.numEmp = Strip(@),
                        !.AncienLieu = Strip(@), !.NouveauLieu = Strip(@)]
      reject == [c |-> c, id |-> NoId, res |-> "fail"]
  IN
  IF \/ data.numEmp = NoId \/ data.AncienLieu = NoId \/ data.NouveauLieu = NoId
     \/ data.dateAffect = NoDate \/ data.datePriseService = NoDate
  THEN reject
  ELSE IF ~Assignment_validate(a) THEN reject
  ELSE IF Employee_get(c, a.numEmp) = {} THEN reject
  ELSE IF Location_get(c, a.AncienLieu) = {} THEN reject
  ELSE IF Location_get(c, a.NouveauLieu) = {} THEN reject
  ELSE IF (CHOOSE e \in Employee_get(c, a.numEmp) : TRUE).idlieu # a.AncienLieu
  THEN reject
  ELSE LET t == CreateTxn(c, a) IN
       [c |-> t.c, id |-> IF t.res = "ok" THEN a.numAffect ELSE NoId, res |-> t.res]

\* AssignmentController.get_by_id calls Assignment.get_assignment, which
\* neither class Assignment nor BaseModel defines (get_assignment is a
\* method of Database): the call raises AttributeError
AssignmentController_get_by_id(c, id) == [raised |-> TRUE, rows |-> {}]

\* cursor.fetchone() when the query has no row
NoRow == AffecterRow(NULL, NULL, NULL, NULL, NoDate, NoDate)

\* the value of cursor.fetchone() for the latest-assignment query: one of
\* the latest rows, or no row
FetchLatest(A, emp) == IF LatestRows(A, emp) = {} THEN {NoRow} ELSE LatestRows(A, emp)

\* the transaction of update, for one value of latest_assignment
UpdateTxn(c, id, a, update_employee_location) ==
  LET b == SqlBegin(c) IN
  IF b.err THEN [c |-> SqlRollback(b.c), res |-> "error"]
  ELSE LET u == UpdateAffecter(b.c, id, a) IN
       IF u.rowcount = 0 THEN [c |-> SqlRollback(u.c), res |-> "fail"]
       ELSE [c |-> SqlCommit(IF update_employee_location
                             THEN UpdateIdlieu(u.c, a.NouveauLieu, a.numEmp)
                             ELSE u.c),
             res |-> "ok"]

\* the set of outcomes of update(assignment_id, data)
AssignmentController_update(c, id, data) ==
  LET g == AssignmentController_get_by_id(c, id)
      a == [data EXCEPT !.numAffect = id]
      reject == {[c |-> c, res |-> "fail"]}
  IN
  IF g.raised THEN {[c |-> c, res |-> "raise"]}
  ELSE IF g.rows = {} THEN reject
  ELSE IF ~Assignment_validate(a) THEN reject
  ELSE IF Employee_get(c, a.numEmp) = {} THEN reject
  ELSE IF Location_get(c, a.AncienLieu) = {} THEN reject
  ELSE IF Location_get(c, a.NouveauLieu) = {} THEN reject
  ELSE {UpdateTxn(c, id, a,
                  /\ latest # NoRow
                  /\ latest.numAffect = id
                  /\ latest.NouveauLieu # a.NouveauLieu) :
          latest \in FetchLatest(c.A, a.numEmp)}

\* the transaction of delete, for one value of latest_assignment and one
\* result of the query for the new most recent assignment
DeleteTxn(c, id, emp, update_employee_location) ==
  LET b == SqlBegin(c) IN
  IF b.err THEN {[c |-> SqlRollback(b.c), res |-> "error"]}
  ELSE LET d == DeleteAffecter(b.c, id) IN
       IF d.rowcount = 0 THEN {[c |-> SqlRollback(d.c), res |-> "fail"]}
       ELSE IF update_employee_location
       THEN {[c |-> SqlCommit(UpdateIdlieu(d.c,
                                 IF result = NoRow THEN NULL ELSE result.NouveauLieu,
                                 emp)),
              res |-> "ok"] : result \in FetchLatest(d.c.A, emp)}
       ELSE {[c |-> SqlCommit(d.c), res |-> "ok"]}

\* the set of outcomes of delete(assignment_id)
AssignmentController_delete(c, id) ==
  LET g == AssignmentController_get_by_id(c, id) IN
  IF g.raised THEN {[c |-> c, res |-> "raise"]}
  ELSE IF g.rows = {} THEN {[c |-> c, res |-> "fail"]}
  ELSE LET emp == (CHOOSE r \in g.rows : TRUE).numEmp IN
       UNION {DeleteTxn(c, id, emp, latest # NoRow /\ latest.numAffect = id) :
                latest \in FetchLatest(c.A, emp)}

----------------------------------------------------------------------------
(* Database, src/src/models/database.py *)

\* add_assignment that moves the employee before it inserts the row and
\* whose handlers return without rollback
AddAssignmentNoRollback(c, a) ==
  LET b == SqlBegin(c) IN
  IF b.err THEN [c |-> b.c, res |-> "error"]
  ELSE LET i == InsertAffecter(UpdateIdlieu(b.c, a.NouveauLieu, a.numEmp), a) IN
       IF i.err THEN [c |-> i.c, res |-> "error"]
       ELSE [c |-> SqlCommit(i.c), res |-> "ok"]

\* add_assignment: BEGIN, INSERT, UPDATE, commit; any exception rolls back
Database_add_assignment(c, a) ==
  LET b == SqlBegin(c) IN
  IF b.err THEN [c |-> SqlRollback(b.c), res |-> "error"]
  ELSE LET i == InsertAffecter(b.c, a) IN
       IF i.err THEN [c |-> SqlRollback(i.c), res |-> "error"]
       ELSE [c |-> SqlCommit(UpdateIdlieu(i.c, a.NouveauLieu, a.numEmp)),
             res |-> "ok"]

Database_update_assignment(c, id, a) ==
  LET b == SqlBegin(c) IN
  IF b.err THEN [c |-> SqlRollback(b.c), res |-> "error"]
  ELSE LET original == {r \in b.c.A : r.numAffect = id} IN
       IF original = {} THEN [c |-> SqlRollback(b.c), res |-> "fail"]
       ELSE LET o == CHOOSE r \in original : TRUE
                u == UpdateAffecter(b.c, id, a)
            IN [c |-> SqlCommit(IF a.numEmp # o.numEmp \/ a.NouveauLieu # o.NouveauLieu
                                THEN UpdateIdlieu(u.c, a.NouveauLieu, a.numEmp)
                                ELSE u.c),
                res |-> "ok"]

\* the set of outcomes of delete_assignment(numAffect)
Database_delete_assignment(c, id) ==
  LET b == SqlBegin(c) IN
  IF b.err THEN {[c |-> SqlRollback(b.c), res |-> "error"]}
  ELSE LET assignment == {r \in b.c.A : r.numAffect = id} IN
       IF assignment = {} THEN {[c |-> SqlRollback(b.c), res |-> "fail"]}
       ELSE LET emp == (CHOOSE r \in assignment : TRUE).numEmp
                d == DeleteAffecter(b.c, id)
                others == {r \in d.c.A : r.numAffect # id}
            IN {[c |-> SqlCommit(UpdateIdlieu(d.c,
                                   IF prev = NoRow THEN NULL ELSE prev.NouveauLieu,
                                   emp)),
                 res |-> "ok"] : prev \in FetchLatest(others, emp)}

\* a count of the employees at a location that finds none
EmployeesAtNone(c, id) == {}

\* SELECT COUNT(*) FROM EMPLOYE WHERE idlieu = ?
EmployeesAt(c, id) == {e \in c.E : e.idlieu = id}

\* SELECT COUNT(*) FROM AFFECTER WHERE AncienLieu = ? OR NouveauLieu = ?
AssignmentsAt(c, id) == {r \in c.A : r.AncienLieu = id \/ r.NouveauLieu = id}

\* a count of the assignments of an employee that finds none
AssignmentsOfNone(c, id) == {}

\* SELECT COUNT(*) FROM AFFECTER WHERE numEmp = ?
AssignmentsOf(c, id) == {r \in c.A : r.numEmp = id}

Database_delete_location(c, id) ==
  IF EmployeesAt(c, id) # {} THEN [c |-> c, res |-> "fail"]
  ELSE IF AssignmentsAt(c, id) # {} THEN [c |-> c, res |-> "fail"]
  ELSE LET d == DeleteLieu(c, id) IN
       [c |-> SqlCommit(d.c), res |-> IF d.rowcount > 0 THEN "ok" ELSE "fail"]

Database_delete_employee(c, id) ==
  IF AssignmentsOf(c, id) # {} THEN [c |-> c, res |-> "fail"]
  ELSE LET d == DeleteEmploye(c, id) IN
       [c |-> SqlCommit(d.c), res |-> IF d.rowcount > 0 THEN "ok" ELSE "fail"]

\* the IntegrityError handler neither commits nor rolls back
Database_add_location(c, row) ==
  LET i == InsertLieu(c, row) IN
  IF i.err THEN [c |-> i.c, res |-> "error"]
  ELSE [c |-> SqlCommit(i.c), res |-> "ok"]

----------------------------------------------------------------------------
(* LocationController and EmployeeController, src/src/controllers *)

LocationController_delete(c, id) ==
  IF Location_get(c, id) = {} THEN [c |-> c, res |-> "fail"]
  ELSE IF EmployeesAt(c, id) # {} THEN [c |-> c, res |-> "fail"]
  ELSE IF AssignmentsAt(c, id) # {} THEN [c |-> c, res |-> "fail"]
  ELSE LET d == DeleteLieu(c, id) IN
       IF d.rowcount = 0 THEN [c |-> d.c, res |-> "fail"]
       ELSE [c |-> SqlCommit(d.c), res |-> "ok"]

\* EmployeeController.get_by_id: SELECT e.* ... WHERE e.numEmp = ?
EmployeeController_get_by_id(c, id) == {e \in c.E : e.numEmp = id}

EmployeeController_delete(c, id) ==
  IF EmployeeController_get_by_id(c, id) = {} THEN [c |-> c, res |-> "fail"]
  ELSE IF AssignmentsOf(c, id) # {} THEN [c |-> c, res |-> "fail"]
  ELSE LET d == DeleteEmploye(c, id) IN
       IF d.rowcount = 0 THEN [c |-> d.c, res |-> "fail"]
       ELSE [c |-> SqlCommit(d.c), res |-> "ok"]

\* assign_location(employee_id, new_location_id, assignment_date,
\* service_start_date, assignment_id): no validation of the dates
EmployeeController_assign_location(c, emp, nouv, da, dp, assignment_id) ==
  LET reject == [c |-> c, id |-> NoId, res |-> "fail"] IN
  IF EmployeeController_get_by_id(c, emp) = {} THEN reject
  ELSE IF Location_get(c, nouv) = {} THEN reject
  ELSE LET idlieu == (CHOOSE e \in EmployeeController_get_by_id(c, emp) : TRUE).idlieu
           old_location_id == IF idlieu = NULL \/ idlieu = NoId THEN UNKNOWN ELSE idlieu
           id == IF assignment_id = NoId
                 THEN _get_next_id(<<"A">>, {r.numAffect : r \in c.A})
                 ELSE assignment_id
       IN IF idlieu = nouv THEN reject
          ELSE LET t == CreateTxn(c, AffecterRow(id, emp, old_location_id, nouv, da, dp))
               IN [c |-> t.c, id |-> IF t.res = "ok" THEN id ELSE NoId, res |-> t.res]

----------------------------------------------------------------------------
(* The single-file GUI, src/main.py *)

\* validate_assignment_data: all fields filled, two different locations,
\* service date not before the assignment date
validate_assignment_data(a) ==
  /\ a.numAffect # NoId
  /\ a.numEmp # NoId
  /\ a.AncienLieu # NoId
  /\ a.NouveauLieu # NoId
  /\ a.dateAffect # NoDate
  /\ a.datePriseService # NoDate
  /\ a.AncienLieu # a.NouveauLieu
  /\ ~(a.datePriseService < a.dateAffect)

Gui_add_assignment(c, a) ==
  IF ~validate_assignment_data(a) THEN [c |-> c, res |-> "fail"]
  ELSE LET b == SqlBegin(c) IN
       IF b.err THEN [c |-> SqlRollback(b.c), res |-> "error"]
       ELSE LET i == InsertAffecter(b.c, a) IN
            IF i.err THEN [c |-> SqlRollback(i.c), res |-> "error"]
            ELSE [c |-> SqlCommit(UpdateIdlieu(i.c, a.NouveauLieu, a.numEmp)),
                  res |-> "ok"]

\* _update_employee_location that writes NULL when no assignment is left
UpdateEmployeeLocationOrNull(c, emp) ==
  {UpdateIdlieu(c, IF result # NoRow THEN result.NouveauLieu ELSE NULL, emp) :
     result \in FetchLatest(c.A, emp)}

\* _update_employee_location(emp_id): the connections it may leave
_update_employee_location(c, emp) ==
  {IF result # NoRow THEN UpdateIdlieu(c, result.NouveauLieu, emp) ELSE c :
     result \in FetchLatest(c.A, emp)}

\* the set of outcomes of update_assignment
Gui_update_assignment(c, a) ==
  IF ~validate_assignment_data(a) THEN {[c |-> c, res |-> "fail"]}
  ELSE LET b == SqlBegin(c) IN
  IF b.err THEN {[c |-> SqlRollback(b.c), res |-> "error"]}
  ELSE LET original == {r \in b.c.A : r.numAffect = a.numAffect} IN
       IF original = {} THEN {[c |-> SqlRollback(b.c), res |-> "fail"]}
       ELSE LET o == CHOOSE r \in original : TRUE
                u == UpdateAffecter(b.c, a.numAffect, a)
            IN IF o.numEmp # a.numEmp \/ o.NouveauLieu # a.NouveauLieu
               THEN LET v == UpdateIdlieu(u.c, a.NouveauLieu, a.numEmp) IN
                    IF o.numEmp # a.numEmp
                    THEN {[c |-> SqlCommit(w), res |-> "ok"] :
                            w \in _update_employee_location(v, o.numEmp)}
                    ELSE {[c |-> SqlCommit(v), res |-> "ok"]}
               ELSE {[c |-> SqlCommit(u.c), res |-> "ok"]}

\* the set of outcomes of delete_assignment
Gui_delete_assignment(c, id) ==
  LET result == {r \in c.A : r.numAffect = id} IN
  IF result = {} THEN {[c |-> c, res |-> "fail"]}
  ELSE LET emp == (CHOOSE r \in result : TRUE).numEmp
           b == SqlBegin(c)
       IN IF b.err THEN {[c |-> SqlRollback(b.c), res |-> "error"]}
          ELSE {[c |-> SqlCommit(w), res |-> "ok"] :
                  w \in _update_employee_location(DeleteAffecter(b.c, id).c, emp)}

\* delete_location looks for employees at the location only
Gui_delete_location(c, id) ==
  IF EmployeesAt(c, id) # {} THEN [c |-> c, res |-> "fail"]
  ELSE [c |-> SqlCommit(DeleteLieu(c, id).c), res |-> "ok"]

Gui_delete_employee(c, id) ==
  IF AssignmentsOf(c, id) # {} THEN [c |-> c, res |-> "fail"]
  ELSE [c |-> SqlCommit(DeleteEmploye(c, id).c), res |-> "ok"]

\* a key the request dict does not hold
Absent == <<"absent">>

\* Python truth of a request value: None, '' and a missing key are false
Falsy(v) == v = NULL \/ v = NoId \/ v = Absent

\* BaseController._validate_required_fields: no required field is missing
\* or empty
_validate_required_fields(data, required_fields) ==
  \A f \in required_fields : ~Falsy(data[f])

\* Location.validate
Location_validate(l) ==
  /\ ~Falsy(l.idlieu) /\ Strip(l.idlieu) # NoId
  /\ ~Falsy(l.design) /\ Strip(l.design) # NoId
  /\ ~Falsy(l.province) /\ Strip(l.province) # NoId

LocationController_get_by_id(c, location_id) == Location_get(c, location_id)

\* LocationController.create(data)
LocationController_create(c, data) ==
  LET reject == [c |-> c, res |-> "fail"] IN
  IF ~_validate_required_fields(data, {"idlieu", "design", "province"}) THEN reject
  ELSE LET location == [idlieu |-> Strip(data.idlieu), design |-> Strip(data.design),
                        province |-> Strip(data.province)]
       IN IF ~Location_validate(location) THEN reject
          ELSE IF LocationController_get_by_id(c, location.idlieu) # {} THEN reject
          ELSE LET i == InsertLieu(c, location) IN
               IF i.err THEN [c |-> SqlRollback(i.c), res |-> "error"]
               ELSE [c |-> SqlCommit(i.c), res |-> "ok"]

\* LocationController.update with the UPDATE placed before the validation
LocationUpdateBeforeValidate(c, location_id, data) ==
  IF LocationController_get_by_id(c, location_id) = {} THEN [c |-> c, res |-> "fail"]
  ELSE LET old == CHOOSE l \in LocationController_get_by_id(c, location_id) : TRUE
           location == [old EXCEPT
                          !.design = IF data.design = Absent THEN @ ELSE Strip(data.design),
                          !.province = IF data.province = Absent THEN @
                                       ELSE Strip(data.province)]
           u == UpdateLieu(c, location_id, location)
       IN IF ~Location_validate(location) THEN [c |-> SqlCommit(u.c), res |-> "fail"]
          ELSE [c |-> SqlCommit(u.c), res |-> "ok"]

\* LocationController.update(location_id, data)
LocationController_update(c, location_id, data) ==
  LET reject == [c |-> c, res |-> "fail"] IN
  IF LocationController_get_by_id(c, location_id) = {} THEN reject
  ELSE LET old == CHOOSE l \in LocationController_get_by_id(c, location_id) : TRUE
           location == [old EXCEPT
                          !.design = IF data.design = Absent THEN @ ELSE Strip(data.design),
                          !.province = IF data.province = Absent THEN @
                                       ELSE Strip(data.province)]
       IN IF ~Location_validate(location) THEN reject
          ELSE LET u == UpdateLieu(c, location_id, location) IN
               IF u.rowcount = 0 THEN [c |-> u.c, res |-> "fail"]
               ELSE [c |-> SqlCommit(u.c), res |-> "ok"]

\* '@' in mail
HasAt(s) == \E i \in DOMAIN s : s[i] = "@"

\* Employee.validate
Employee_validate(e) ==
  /\ ~Falsy(e.numEmp) /\ Strip(e.numEmp) # NoId
  /\ ~Falsy(e.civilite) /\ e.civilite \in CIVILITE_OPTIONS
  /\ ~Falsy(e.nom) /\ Strip(e.nom) # NoId
  /\ ~Falsy(e.prenom) /\ Strip(e.prenom) # NoId
  /\ ~Falsy(e.mail) /\ HasAt(e.mail)
  /\ ~Falsy(e.poste) /\ Strip(e.poste) # NoId

\* EmployeeController.create(data); the employee's identifier is returned
EmployeeController_create(c, data) ==
  LET reject == [c |-> c, id |-> NoId, res |-> "fail"] IN
  IF ~_validate_required_fields(data, {"civilite", "nom", "prenom", "mail", "poste"})
  THEN reject
  ELSE LET numEmp == IF Falsy(data.numEmp)
                     THEN _get_next_id(<<"E">>, {e.numEmp : e \in c.E})
                     ELSE data.numEmp
           employee == [numEmp |-> Strip(numEmp), civilite |-> Strip(data.civilite),
                        nom |-> Strip(data.nom), prenom |-> Strip(data.prenom),
                        mail |-> Lower(Strip(data.mail)), poste |-> Strip(data.poste),
                        idlieu |-> IF data.idlieu = Absent THEN NULL ELSE data.idlieu]
       IN IF ~Employee_validate(employee) THEN reject
          ELSE IF ~Falsy(employee.idlieu) /\ Location_get(c, employee.idlieu) = {}
          THEN reject
          ELSE IF \E e \in c.E : e.mail = employee.mail THEN reject
          ELSE LET i == InsertEmploye(c, employee) IN
               IF i.err THEN [c |-> SqlRollback(i.c), id |-> NoId, res |-> "error"]
               ELSE [c |-> SqlCommit(i.c), id |-> employee.numEmp, res |-> "ok"]

\* update without the search for the mail, on a table without UNIQUE(mail)
EmployeeUpdateUnchecked(c, employee_id, data) ==
  IF EmployeeController_get_by_id(c, employee_id) = {} \/ data.mail = Absent
  THEN [c |-> c, res |-> "fail"]
  ELSE [c |-> SqlCommit([ImplicitBegin(c) EXCEPT
                           !.E = {IF e.numEmp = employee_id
                                  THEN [e EXCEPT !.mail = Lower(Strip(data.mail))]
                                  ELSE e : e \in @}]),
        res |-> "ok"]

\* EmployeeController.update(employee_id, data)
EmployeeController_update(c, employee_id, data) ==
  LET reject == [c |-> c, res |-> "fail"]
      Put(old, new) == IF new = Absent THEN old ELSE Strip(new)
  IN
  IF EmployeeController_get_by_id(c, employee_id) = {} THEN reject
  ELSE LET old == CHOOSE e \in EmployeeController_get_by_id(c, employee_id) : TRUE
           employee == [numEmp |-> old.numEmp,
                        civilite |-> Put(old.civilite, data.civilite),
                        nom |-> Put(old.nom, data.nom),
                        prenom |-> Put(old.prenom, data.prenom),
                        mail |-> IF data.mail = Absent THEN old.mail
                                 ELSE Lower(Strip(data.mail)),
                        poste |-> Put(old.poste, data.poste),
                        idlieu |-> IF data.idlieu = Absent THEN old.idlieu
                                   ELSE IF Falsy(data.idlieu) THEN NULL
                                   ELSE data.idlieu]
       IN IF ~Employee_validate(employee) THEN reject
          ELSE IF ~Falsy(employee.idlieu) /\ Location_get(c, employee.idlieu) = {}
          THEN reject
          ELSE IF \E e \in c.E : e.mail = employee.mail /\ e.numEmp # employee_id
          THEN reject
          ELSE LET u == UpdateEmploye(c, employee_id, employee) IN
               IF u.err THEN [c |-> SqlRollback(u.c), res |-> "error"]
               ELSE IF u.rowcount = 0 THEN [c |-> u.c, res |-> "fail"]
               ELSE [c |-> SqlCommit(u.c), res |-> "ok"]

----------------------------------------------------------------------------
(* Requests *)

\* the assignment forms the operations are called with; NoId as numAffect
\* asks for a generated identifier
Forms(ids) ==
  {AffecterRow(id, e, anc, nouv, da, dp) :
     id \in ids, e \in EmpIds, anc \in LocIds, nouv \in LocIds,
     da \in Dates, dp \in Dates}

\* the two assignments of the scenario of spec.md section 8: A1 on
\* 2024-01-10 / 2024-01-15 and A2 on 2024-02-01 / 2024-02-05, as days
\* 1 / 2 and 3 / 4, all before Today
ScenarioA1 == AffecterRow(A1, E1, L1, L2, 1, 2)
ScenarioA2 == AffecterRow(A2, E1, L2, L1, 3, 4)

\* requests for a generated identifier are dated today
GenForms == {a \in Forms({NoId}) : a.dateAffect = Today /\ a.datePriseService = Today}

\* forms whose identifiers carry blanks around them
PaddedForms ==
  {[a EXCEPT !.numEmp = <<" ">> \o @, !.AncienLieu = <<" ">> \o @ \o <<" ">>,
             !.NouveauLieu = @ \o <<" ">>] :
     a \in {f \in Forms({A2}) : f.dateAffect = Today /\ f.datePriseService = Today}}

ControllerForms ==
  Forms(AffIds) \cup GenForms \cup {ScenarioA1, ScenarioA2} \cup PaddedForms

\* forms that pass the checks of the forms of the GUI
CheckedForms == {a \in Forms(AffIds) : validate_assignment_data(a)}

\* the location requests: identifiers new, taken and with blanks around
\* them, names and provinces plain, padded, blank and empty
LocationForms ==
  {[idlieu |-> id, design |-> d, province |-> p] :
     id \in {L1, L3, <<" ">> \o L3 \o <<" ">>, NoId},
     d \in {<<"d">>, <<" ", "d">>, <<" ">>},
     p \in {<<"p">>, <<"q", " ">>, NoId}}

\* the location updates: each field left out, changed, blank or empty
LocationUpdates ==
  {[design |-> d, province |-> p] :
     d \in {Absent, <<" ", "x", " ">>, <<" ">>},
     p \in {Absent, <<"q">>, NoId}}

\* the mails of the requests: one taken, the same in upper case, a new one
\* with blanks around it, one without "@"
RequestMails ==
  {MailOf(E1), E1 \o <<"@">>, <<" ">> \o MailOf(E3) \o <<" ">>, <<"x">>}

EmployeeForm(id, mail, lieu) ==
  [numEmp |-> id, civilite |-> <<"M", "r">>, nom |-> <<"n">>, prenom |-> <<"p">>,
   mail |-> mail, poste |-> <<"j">>, idlieu |-> lieu]

\* the employee requests: identifier generated, taken or new; location left
\* out, empty, existing or unknown; and requests with an invalid field
EmployeeForms ==
  {EmployeeForm(id, m, l) :
     id \in {NoId, E2, <<" ">> \o E3}, m \in RequestMails, l \in {Absent, NoId, L1, L3}}
  \cup {[EmployeeForm(NoId, MailOf(E3), Absent) EXCEPT !.civilite = <<"D", "r">>],
        [EmployeeForm(NoId, MailOf(E3), Absent) EXCEPT !.nom = <<" ">>],
        EmployeeForm(NoId, NoId, Absent)}

\* an update that changes nothing
NoChange ==
  [civilite |-> Absent, nom |-> Absent, prenom |-> Absent, mail |-> Absent,
   poste |-> Absent, idlieu |-> Absent]

\* the employee updates: one field changed at a time
EmployeeUpdates ==
  {[NoChange EXCEPT !.mail = m] : m \in RequestMails \cup {NoId}}
  \cup {[NoChange EXCEPT !.idlieu = l] : l \in {NoId, L2, L3}}
  \cup {[NoChange EXCEPT !.civilite = <<"D", "r">>], [NoChange EXCEPT !.nom = <<" ">>]}

----------------------------------------------------------------------------
(* Store *)

\* the callers of the interleaved creates, and a caller that has not called
Callers == {1, 2}

IdleCall == [pc |-> "idle", existing_ids |-> {}, a |-> NoRow, res |-> "none"]

NoCalls == [k \in Callers |-> IdleCall]

Apply(c, op, id, res) ==
  /\ LIEU' = c.L
  /\ EMPLOYE' = c.E
  /\ AFFECTER' = c.A
  /\ disk' = c.disk
  /\ inTxn' = c.txn
  /\ last' = [op |-> op, id |-> id, res |-> res]
  /\ calls' = calls
  /\ generated' = generated

Init ==
  /\ LIEU = {LieuRow(l) : l \in LocIds}
  /\ EMPLOYE = {EmployeRow(E1, L1), EmployeRow(E2, NULL)}
  /\ AFFECTER = {}
  /\ disk = [L |-> LIEU, E |-> EMPLOYE, A |-> AFFECTER]
  /\ inTxn = FALSE
  /\ last = [op |-> "open", id |-> NoId, res |-> "ok"]
  /\ calls = NoCalls
  /\ generated = {}

\* an identifier is generated only while its number is within the bound
MayGenerate(id) ==
  id = NoId => NextNum(<<"A">>, {r.numAffect : r \in AFFECTER}) <= MaxIdNum

ACCreateOf(forms) ==
  \E data \in forms :
    /\ MayGenerate(data.numAffect)
    /\ LET r == AssignmentController_create(Conn, data) IN
       Apply(r.c, "AssignmentController.create",
             IF r.res = "fail" THEN data.numAffect ELSE
             IF data.numAffect = NoId
             THEN _get_next_id(<<"A">>, {x.numAffect : x \in AFFECTER})
             ELSE data.numAffect,
             r.res)

ACCreate == ACCreateOf(ControllerForms)

\* identifiers a row may carry that the generator did not make: short, with
\* more than three digits, at the end of the three-digit range, with a
\* suffix that is no number or is empty, without the prefix, and with a
\* suffix int() reads as a number (a sign, a blank, an underscore)
OddIds ==
  {A1, <<"A", "1">>, <<"A", "0", "0", "0", "2">>, <<"A", "1", "0", "0", "0">>,
   <<"A", "9", "9", "9">>, <<"A", "X">>, <<"A">>, <<"0", "0", "1">>,
   <<"B", "0", "0", "7">>, <<"a", "0", "0", "5">>, <<"A", "-", "2">>,
   <<"A", " ", "3">>, <<"A", "1", "_", "0">>}

\* create with a generated identifier, whatever its number
ACCreateGenerated ==
  \E data \in GenForms :
    /\ Cardinality(AFFECTER) < MaxRows
    /\ LET r == AssignmentController_create(Conn, data) IN
       Apply(r.c, "AssignmentController.create",
             IF r.res = "ok"
             THEN _get_next_id(<<"A">>, {x.numAffect : x \in AFFECTER})
             ELSE NoId,
             r.res)

\* assign_location with a generated identifier, whatever its number
ECAssignGenerated ==
  \E emp \in EmpIds, nouv \in LocIds :
    /\ Cardinality(AFFECTER) < MaxRows
    /\ LET r == EmployeeController_assign_location(Conn, emp, nouv, Today, Today, NoId) IN
       Apply(r.c, "EmployeeController.assign_location", r.id, r.res)

ACUpdate ==
  \E data \in Forms(AffIds) :
    \E r \in AssignmentController_update(Conn, data.numAffect, data) :
      Apply(r.c, "AssignmentController.update", data.numAffect, r.res)

ACDelete ==
  \E id \in AffIds :
    \E r \in AssignmentController_delete(Conn, id) :
      Apply(r.c, "AssignmentController.delete", id, r.res)

ECAssignLocation ==
  \E emp \in EmpIds, nouv \in LocIds, da \in Dates, dp \in Dates,
     id \in AffIds \cup {NoId} :
    /\ id = NoId => da = Today /\ dp = Today
    /\ MayGenerate(id)
    /\ LET r == EmployeeController_assign_location(Conn, emp, nouv, da, dp, id) IN
       Apply(r.c, "EmployeeController.assign_location",
             IF r.res = "fail" THEN id ELSE
             IF id = NoId
             THEN _get_next_id(<<"A">>, {x.numAffect : x \in AFFECTER})
             ELSE id,
             r.res)

LCDelete ==
  \E id \in LocIds :
    LET r == LocationController_delete(Conn, id) IN
    Apply(r.c, "LocationController.delete", id, r.res)

ECDelete ==
  \E id \in EmpIds :
    LET r == EmployeeController_delete(Conn, id) IN
    Apply(r.c, "EmployeeController.delete", id, r.res)

DbAddAssignment ==
  \E a \in CheckedForms :
    LET r == Database_add_assignment(Conn, a) IN
    Apply(r.c, "Database.add_assignment", a.numAffect, r.res)

\* add_assignment called with any six values
DbAddAssignmentAny ==
  \E a \in Forms(AffIds) :
    LET r == Database_add_assignment(Conn, a) IN
    Apply(r.c, "Database.add_assignment", a.numAffect, r.res)

DbUpdateAssignment ==
  \E a \in CheckedForms :
    LET r == Database_update_assignment(Conn, a.numAffect, a) IN
    Apply(r.c, "Database.update_assignment", a.numAffect, r.res)

DbDeleteAssignment ==
  \E id \in AffIds :
    \E r \in Database_delete_assignment(Conn, id) :
      Apply(r.c, "Database.delete_assignment", id, r.res)

DbDeleteLocation ==
  \E id \in LocIds :
    LET r == Database_delete_location(Conn, id) IN
    Apply(r.c, "Database.delete_location", id, r.res)

DbDeleteEmployee ==
  \E id \in EmpIds :
    LET r == Database_delete_employee(Conn, id) IN
    Apply(r.c, "Database.delete_employee", id, r.res)

DbAddLocation ==
  \E id \in LocIds :
    LET r == Database_add_location(Conn, LieuRow(id)) IN
    Apply(r.c, "Database.add_location", id, r.res)

GuiAddAssignment ==
  \E a \in CheckedForms :
    LET r == Gui_add_assignment(Conn, a) IN
    Apply(r.c, "main.add_assignment", a.numAffect, r.res)

GuiUpdateAssignment ==
  \E a \in CheckedForms :
    \E r \in Gui_update_assignment(Conn, a) :
      Apply(r.c, "main.update_assignment", a.numAffect, r.res)

GuiDeleteAssignment ==
  \E id \in AffIds :
    \E r \in Gui_delete_assignment(Conn, id) :
      Apply(r.c, "main.delete_assignment", id, r.res)

GuiDeleteLocation ==
  \E id \in LocIds :
    LET r == Gui_delete_location(Conn, id) IN
    Apply(r.c, "main.delete_location", id, r.res)

GuiDeleteEmployee ==
  \E id \in EmpIds :
    LET r == Gui_delete_employee(Conn, id) IN
    Apply(r.c, "main.delete_employee", id, r.res)

LCCreateOf(forms) ==
  \E data \in forms :
    LET r == LocationController_create(Conn, data) IN
    Apply(r.c, "LocationController.create", data.idlieu, r.res)

LCCreate == LCCreateOf(LocationForms)

LCUpdateOf(ids, updates) ==
  \E id \in ids, data \in updates :
    LET r == LocationController_update(Conn, id, data) IN
    Apply(r.c, "LocationController.update", id, r.res)

LCUpdate == LCUpdateOf({L2, L3}, LocationUpdates)

ECCreateOf(forms) ==
  \E data \in forms :
    /\ Cardinality(EMPLOYE) < MaxEmployees
    /\ LET r == EmployeeController_create(Conn, data) IN
       Apply(r.c, "EmployeeController.create",
             IF r.res = "ok" THEN r.id ELSE data.numEmp, r.res)

ECCreate == ECCreateOf(EmployeeForms)

ECUpdateOf(ids, updates) ==
  \E id \in ids, data \in updates :
    LET r == EmployeeController_update(Conn, id, data) IN
    Apply(r.c, "EmployeeController.update", id, r.res)

ECUpdate == ECUpdateOf({E1, E2, E3}, EmployeeUpdates)

\* Two callers of AssignmentController.create, each on a connection of its
\* own to the same database file: LIEU, EMPLOYE and AFFECTER are the
\* committed tables, which every SELECT of a caller reads; the row a caller
\* has inserted and not committed is in its call record, and inTxn tells
\* that a caller holds the write lock of the file.
Other(k) == CHOOSE o \in Callers : o # k

\* the committed tables, as a connection without a transaction sees them
DiskConn == [L |-> disk.L, E |-> disk.E, A |-> disk.A, disk |-> disk, txn |-> FALSE]

Finish(k, res) ==
  /\ calls' = [calls EXCEPT ![k].pc = "done", ![k].res = res]
  /\ last' = [op |-> "AssignmentController.create", id |-> calls[k].a.numAffect,
              res |-> res]

\* SELECT numAffect FROM AFFECTER and _get_next_id
CallRead ==
  \E k \in Callers, data \in GenForms :
    /\ calls[k].pc = "idle"
    /\ Cardinality(disk.A) < MaxRows
    /\ calls' = [calls EXCEPT ![k] =
                   [pc |-> "read",
                    existing_ids |-> {r.numAffect : r \in disk.A},
                    a |-> [data EXCEPT !.numAffect =
                             _get_next_id(<<"A">>, {r.numAffect : r \in disk.A})],
                    res |-> "none"]]
    /\ UNCHANGED <<LIEU, EMPLOYE, AFFECTER, disk, inTxn, last, generated>>

\* validate, the lookups of the employee and of the two locations, and the
\* comparison of AncienLieu with the employee's idlieu
CallCheck ==
  \E k \in Callers :
    /\ calls[k].pc = "read"
    /\ IF AssignmentController_create(DiskConn, calls[k].a).res = "fail"
       THEN Finish(k, "fail")
       ELSE calls' = [calls EXCEPT ![k].pc = "checked"] /\ last' = last
    /\ UNCHANGED <<LIEU, EMPLOYE, AFFECTER, disk, inTxn, generated>>

\* BEGIN TRANSACTION and the INSERT: "database is locked" while the other
\* caller holds the write lock, else the INSERT against the committed rows
CallInsert ==
  \E k \in Callers :
    /\ calls[k].pc = "checked"
    /\ IF calls[Other(k)].pc = "inserted" \/ InsertAffecter(DiskConn, calls[k].a).err
       THEN Finish(k, "error") /\ inTxn' = inTxn
       ELSE calls' = [calls EXCEPT ![k].pc = "inserted"] /\ last' = last /\ inTxn' = TRUE
    /\ UNCHANGED <<LIEU, EMPLOYE, AFFECTER, disk, generated>>

\* UPDATE EMPLOYE SET idlieu and the commit
CallCommit ==
  \E k \in Callers :
    /\ calls[k].pc = "inserted"
    /\ LET a == calls[k].a
           c == SqlCommit(UpdateIdlieu(InsertAffecter(DiskConn, a).c,
                                       a.NouveauLieu, a.numEmp))
       IN /\ LIEU' = c.L /\ EMPLOYE' = c.E /\ AFFECTER' = c.A
          /\ disk' = c.disk /\ inTxn' = c.txn
    /\ Finish(k, "ok")
    /\ UNCHANGED generated

\* the call has returned; the caller may call again
CallReturn ==
  \E k \in Callers :
    /\ calls[k].pc = "done"
    /\ calls' = [calls EXCEPT ![k] = IdleCall]
    /\ UNCHANGED <<LIEU, EMPLOYE, AFFECTER, disk, inTxn, last, generated>>

\* the controllers
NextCtl ==
  \/ ACCreate
  \/ ACUpdate
  \/ ACDelete
  \/ ECAssignLocation

SpecCtl == Init /\ [][NextCtl]_vars

\* the Database class
NextDb ==
  \/ DbAddAssignment
  \/ DbUpdateAssignment
  \/ DbDeleteAssignment

SpecDb == Init /\ [][NextDb]_vars

\* the single-file GUI
NextGui ==
  \/ GuiAddAssignment
  \/ GuiUpdateAssignment
  \/ GuiDeleteAssignment

SpecGui == Init /\ [][NextGui]_vars

\* AssignmentController alone, from the stores in which every employee's
\* idlieu agrees with the assignment history: one employee with one
\* assignment made through the controller, the other with none
InitAC ==
  /\ LIEU = {LieuRow(l) : l \in LocIds}
  /\ \E a \in {f \in Forms({A1}) : Assignment_validate(f) /\ f.numEmp = E1} :
       /\ AFFECTER = {a}
       /\ EMPLOYE = {EmployeRow(E1, a.NouveauLieu), EmployeRow(E2, NULL)}
  /\ disk = [L |-> LIEU, E |-> EMPLOYE, A |-> AFFECTER]
  /\ inTxn = FALSE
  /\ last = [op |-> "open", id |-> NoId, res |-> "ok"]
  /\ calls = NoCalls
  /\ generated = {}

NextAC ==
  \/ ACCreate
  \/ ACUpdate
  \/ ACDelete

SpecAC == InitAC /\ [][NextAC]_vars

\* assignment operations next to an operation that can leave a transaction
\* open on the shared connection
NextTxn ==
  \/ ACCreate
  \/ ACUpdate
  \/ ACDelete
  \/ DbAddAssignment
  \/ DbAddLocation

SpecTxn == Init /\ [][NextTxn]_vars

\* the three ways to delete a location, while assignments come and go
NextLoc ==
  \/ LCDelete
  \/ DbDeleteLocation
  \/ GuiDeleteLocation
  \/ DbAddLocation
  \/ DbAddAssignment
  \/ DbDeleteAssignment

SpecLoc == Init /\ [][NextLoc]_vars

\* the three ways to delete an employee, while assignments come and go
NextEmp ==
  \/ ECDelete
  \/ DbDeleteEmployee
  \/ GuiDeleteEmployee
  \/ DbAddAssignment
  \/ DbDeleteAssignment

SpecEmp == Init /\ [][NextEmp]_vars

\* the two ways to create an assignment from a full set of values
NextCreate ==
  \/ ACCreate
  \/ DbAddAssignmentAny

SpecCreate == Init /\ [][NextCreate]_vars

\* the create and update operations of the three controllers, each called
\* with a few requests: some accepted, some rejected at each of its checks
FewLocationForms ==
  {f \in LocationForms :
     f.idlieu \in {L1, L3} /\ f.design \in {<<"d">>, <<" ">>} /\ f.province = <<"p">>}

FewLocationUpdates ==
  {u \in LocationUpdates : u.design # Absent /\ u.province = Absent}

FewEmployeeForms ==
  {f \in EmployeeForms :
     f.numEmp = NoId /\ f.idlieu \in {Absent, L3} /\ f.mail # E1 \o <<"@">>}

FewEmployeeUpdates ==
  {u \in EmployeeUpdates : u.mail \in {Absent, <<"x">>} /\ u.idlieu \in {Absent, L2}}

FewForms ==
  {ScenarioA1, ScenarioA2} \cup
  {a \in PaddedForms \cup GenForms : a.numEmp \in {E2, <<" ">> \o E2}}

LCCreateFew == LCCreateOf(FewLocationForms)
LCUpdateFew == LCUpdateOf({L2}, FewLocationUpdates)
ECCreateFew == ECCreateOf(FewEmployeeForms)
ECUpdateFew == ECUpdateOf({E2}, FewEmployeeUpdates)
ACCreateFew == ACCreateOf(FewForms)

NextVal ==
  \/ LCCreateFew
  \/ LCUpdateFew
  \/ ECCreateFew
  \/ ECUpdateFew
  \/ ACCreateFew
  \/ ACUpdate

SpecVal == Init /\ [][NextVal]_vars

\* LocationController
NextLieu ==
  \/ LCCreate
  \/ LCUpdate
  \/ LCDelete

SpecLieu == Init /\ [][NextLieu]_vars

\* EmployeeController
NextEmploye ==
  \/ ECCreate
  \/ ECUpdate
  \/ ECDelete

SpecEmploye == Init /\ [][NextEmploye]_vars

\* the creates with a generated identifier, from stores whose assignments,
\* written through Database.add_assignment, carry any identifiers
InitGen ==
  /\ LIEU = {LieuRow(l) : l \in LocIds}
  /\ EMPLOYE = {EmployeRow(E1, L1), EmployeRow(E2, NULL)}
  /\ \E S \in SUBSET OddIds :
       /\ Cardinality(S) < MaxRows
       /\ AFFECTER = {AffecterRow(id, E1, L2, L1, Today, Today) : id \in S}
  /\ disk = [L |-> LIEU, E |-> EMPLOYE, A |-> AFFECTER]
  /\ inTxn = FALSE
  /\ last = [op |-> "open", id |-> NoId, res |-> "ok"]
  /\ calls = NoCalls
  /\ generated = {}

NextGen ==
  \/ ACCreateGenerated
  \/ ECAssignGenerated
  \/ ECCreateFew

SpecGen == InitGen /\ [][NextGen]_vars

\* two callers of AssignmentController.create on one database file, both
\* employees at a location
InitCalls ==
  /\ LIEU = {LieuRow(l) : l \in LocIds}
  /\ EMPLOYE = {EmployeRow(E1, L1), EmployeRow(E2, L2)}
  /\ AFFECTER = {}
  /\ disk = [L |-> LIEU, E |-> EMPLOYE, A |-> AFFECTER]
  /\ inTxn = FALSE
  /\ last = [op |-> "open", id |-> NoId, res |-> "ok"]
  /\ calls = NoCalls
  /\ generated = {}

NextCalls ==
  \/ CallRead
  \/ CallCheck
  \/ CallInsert
  \/ CallCommit
  \/ CallReturn

SpecCalls == InitCalls /\ [][NextCalls]_vars

----------------------------------------------------------------------------
(* Properties *)

\* the destinations of the most recent assignments of an employee, NULL
\* when the employee has no assignment
LatestOrNull(A, emp) ==
  IF {r \in A : r.numEmp = emp} = {} THEN {NULL}
  ELSE {r.NouveauLieu : r \in {x \in A : x.numEmp = emp /\
          \A y \in A : y.numEmp = emp =>
             ~(\/ x.dateAffect < y.dateAffect
               \/ x.dateAffect = y.dateAffect /\
                  x.datePriseService < y.datePriseService)}}

AssignmentControllerOps ==
  {"AssignmentController.create", "AssignmentController.update",
   "AssignmentController.delete"}

\* C1: after every create, update or delete of AssignmentController, from a
\* store where it holds, each employee's idlieu is the NouveauLieu of the
\* employee's most recent assignment row, or NULL without assignment rows
C1_IdlieuMirrorsLatest ==
  \A e \in EMPLOYE : e.idlieu \in LatestOrNull(AFFECTER, e.numEmp)

\* C2: assignment create, update and delete are atomic: a call that does
\* not succeed leaves the store as it was, a call that succeeds has
\* committed the row change together with the idlieu change, and no call
\* leaves uncommitted changes behind or opens a transaction that it leaves
\* open
C2_Atomic ==
  [][last'.op \in AssignmentControllerOps \cup {"Database.add_assignment"} =>
       /\ disk' = [L |-> LIEU', E |-> EMPLOYE', A |-> AFFECTER']
       /\ inTxn' => inTxn
       /\ last'.res # "ok" => disk' = disk /\ LIEU' = LIEU /\ EMPLOYE' = EMPLOYE
                                /\ AFFECTER' = AFFECTER
       /\ last'.res = "ok" =>
            \E r \in disk'.A \ disk.A :
              /\ r.numAffect = last'.id
              /\ \A e \in disk'.E : e.numEmp = r.numEmp => e.idlieu = r.NouveauLieu
  ]_vars

\* a create failed inside its transaction on an identifier already in use
C2_Witness ==
  /\ last.op = "AssignmentController.create"
  /\ last.res = "error"
  /\ ~inTxn
  /\ \E r \in AFFECTER : r.numAffect = last.id

\* C3: AssignmentController.delete removes the row and sets its employee's
\* idlieu to the NouveauLieu of the most recent remaining assignment, or to
\* NULL when none remains, whether or not the deleted row was the most recent
C3_DeleteRecomputes ==
  [][\A r \in AFFECTER :
       last'.op = "AssignmentController.delete" /\ last'.id = r.numAffect =>
         /\ \A x \in AFFECTER' : x.numAffect # r.numAffect
         /\ \A e \in EMPLOYE' :
              e.numEmp = r.numEmp => e.idlieu \in LatestOrNull(AFFECTER', r.numEmp)
  ]_vars

\* C4: when AssignmentController.update is asked for a valid edit that keeps
\* the row's employee and makes the row newer than every other row of the
\* employee, the employee's idlieu is the row's new NouveauLieu after the call
C4_UpdatePropagates ==
  \A data \in Forms(AffIds) :
    \A r \in AFFECTER :
      ( /\ r.numAffect = data.numAffect
        /\ r.numEmp = data.numEmp
        /\ Assignment_validate(data)
        /\ \A s \in AFFECTER :
             s.numEmp = data.numEmp /\ s.numAffect # data.numAffect =>
               \/ s.dateAffect < data.dateAffect
               \/ s.dateAffect = data.dateAffect /\
                  s.datePriseService < data.datePriseService )
      => \A o \in AssignmentController_update(Conn, data.numAffect, data) :
           \A e \in o.c.E : e.numEmp = data.numEmp => e.idlieu = data.NouveauLieu

UpdateOps ==
  {"AssignmentController.update", "Database.update_assignment",
   "main.update_assignment"}

\* C5: after an update that moved a row from employee P to another employee,
\* P's idlieu is the NouveauLieu of P's most recent remaining assignment, or
\* NULL when P has none left
C5_PreviousEmployeeRecomputed ==
  [][\A r \in AFFECTER : \A s \in AFFECTER' :
       ( /\ last'.op \in UpdateOps
         /\ last'.res = "ok"
         /\ r.numAffect = last'.id
         /\ s.numAffect = last'.id
         /\ r.numEmp # s.numEmp )
       => \A e \in EMPLOYE' :
            e.numEmp = r.numEmp => e.idlieu \in LatestOrNull(AFFECTER', r.numEmp)
  ]_vars

CreateOps ==
  {"AssignmentController.create", "EmployeeController.assign_location"}

\* C6: a successful create has added the row and set the employee's idlieu
\* to the new row's NouveauLieu, whatever the dates of the employee's other
\* rows
C6_CreateUnconditional ==
  [][last'.op \in CreateOps /\ last'.res = "ok" =>
       \E r \in AFFECTER' \ AFFECTER :
         /\ r.numAffect = last'.id
         /\ \A e \in EMPLOYE' : e.numEmp = r.numEmp => e.idlieu = r.NouveauLieu
  ]_vars

\* a create has just added a row dated before another row of the employee,
\* and the employee is at the destination of the earlier-dated new row
C6_Witness ==
  /\ last.op \in CreateOps
  /\ last.res = "ok"
  /\ \E r \in AFFECTER : \E s \in AFFECTER :
       /\ r.numAffect = last.id
       /\ s.numEmp = r.numEmp
       /\ \/ r.dateAffect < s.dateAffect
          \/ r.dateAffect = s.dateAffect /\ r.datePriseService < s.datePriseService
       /\ s.NouveauLieu # r.NouveauLieu
       /\ \A e \in EMPLOYE : e.numEmp = r.numEmp => e.idlieu = r.NouveauLieu

\* the stores of the scenario: E1 at L1 and no assignment; after A1; after A2
Scenario0 ==
  /\ AFFECTER = {}
  /\ \E e \in EMPLOYE : e.numEmp = E1 /\ e.idlieu = L1
  /\ {L1, L2} \subseteq {l.idlieu : l \in LIEU}
  /\ ~inTxn

Scenario1 ==
  /\ AFFECTER = {ScenarioA1}
  /\ \E e \in EMPLOYE : e.numEmp = E1 /\ e.idlieu = L2
  /\ {L1, L2} \subseteq {l.idlieu : l \in LIEU}
  /\ ~inTxn

Scenario2 ==
  /\ AFFECTER = {ScenarioA1, ScenarioA2}
  /\ \E e \in EMPLOYE : e.numEmp = E1 /\ e.idlieu = L1
  /\ {L1, L2} \subseteq {l.idlieu : l \in LIEU}
  /\ ~inTxn

\* C7: with L1, L2 and E1 at L1, creating A1 (E1, L1 to L2) succeeds and
\* puts E1 at L2; then creating A2 (E1, L2 to L1) succeeds and puts E1 at L1;
\* then deleting A2 succeeds and puts E1 at L2
C7_Scenario ==
  [][/\ Scenario0 =>
          LET r == AssignmentController_create(Conn, ScenarioA1) IN
          /\ r.res = "ok"
          /\ \A e \in r.c.E : e.numEmp = E1 => e.idlieu = L2
     /\ Scenario1 =>
          LET r == AssignmentController_create(Conn, ScenarioA2) IN
          /\ r.res = "ok"
          /\ \A e \in r.c.E : e.numEmp = E1 => e.idlieu = L1
     /\ Scenario2 /\ last'.op = "AssignmentController.delete" /\ last'.id = A2 =>
          /\ last'.res = "ok"
          /\ AFFECTER' = {ScenarioA1}
          /\ \A e \in EMPLOYE' : e.numEmp = E1 => e.idlieu = L2
  ]_vars

LocationDeleteOps ==
  {"LocationController.delete", "Database.delete_location", "main.delete_location"}

\* C8: deleting a location that is the idlieu of an employee fails and leaves
\* the three tables as they were
C8_LocationOfEmployeeKept ==
  [][( /\ last'.op \in LocationDeleteOps
       /\ \E e \in EMPLOYE : e.idlieu = last'.id )
     => /\ last'.res # "ok"
        /\ LIEU' = LIEU /\ EMPLOYE' = EMPLOYE /\ AFFECTER' = AFFECTER
        /\ disk' = disk
  ]_vars

\* the delete of an existing location at which an employee is has just failed
C8_Witness ==
  /\ last.op \in LocationDeleteOps
  /\ last.res = "fail"
  /\ \E l \in LIEU : l.idlieu = last.id
  /\ \E e \in EMPLOYE : e.idlieu = last.id

\* C9: on every location-delete path, deleting a location that is the
\* AncienLieu or NouveauLieu of an assignment row fails and removes no row
C9_LocationOfAssignmentKept ==
  [][( /\ last'.op \in LocationDeleteOps
       /\ \E r \in AFFECTER : r.AncienLieu = last'.id \/ r.NouveauLieu = last'.id )
     => /\ last'.res # "ok"
        /\ LIEU' = LIEU /\ EMPLOYE' = EMPLOYE /\ AFFECTER' = AFFECTER
  ]_vars

EmployeeDeleteOps ==
  {"EmployeeController.delete", "Database.delete_employee", "main.delete_employee"}

\* C10: deleting an employee who has an assignment row fails and removes
\* nothing; deleting an existing employee without assignment rows succeeds
\* and a get of the identifier then finds no employee
C10_EmployeeDelete ==
  [][last'.op \in EmployeeDeleteOps =>
       /\ (\E r \in AFFECTER : r.numEmp = last'.id) =>
            /\ last'.res # "ok"
            /\ LIEU' = LIEU /\ EMPLOYE' = EMPLOYE /\ AFFECTER' = AFFECTER
            /\ disk' = disk
       /\ ( /\ \E e \in EMPLOYE : e.numEmp = last'.id
            /\ ~ \E r \in AFFECTER : r.numEmp = last'.id ) =>
            /\ last'.res = "ok"
            /\ EmployeeController_get_by_id(Conn', last'.id) = {}
            /\ Employee_get(Conn', last'.id) = {}
  ]_vars

\* the delete of an employee who has an assignment row has just failed
C10_Witness ==
  /\ last.op \in EmployeeDeleteOps
  /\ last.res = "fail"
  /\ \E e \in EMPLOYE : e.numEmp = last.id
  /\ \E r \in AFFECTER : r.numEmp = last.id

\* C11: on AssignmentController.create and on Database.add_assignment, a
\* create whose AncienLieu equals its NouveauLieu fails and writes nothing:
\* no step adds such a row, and every such request is refused with the
\* tables as they were
C11_SameLocationRejected ==
  [][/\ \A a \in Forms(AffIds) :
          a.AncienLieu = a.NouveauLieu =>
            /\ AssignmentController_create(Conn, a).res # "ok"
            /\ Tables(AssignmentController_create(Conn, a).c) = Tables(Conn)
            /\ Database_add_assignment(Conn, a).res # "ok"
            /\ Tables(Database_add_assignment(Conn, a).c) = Tables(Conn)
     /\ last'.op \in {"AssignmentController.create", "Database.add_assignment"} =>
          \A r \in AFFECTER' \ AFFECTER : r.AncienLieu # r.NouveauLieu
  ]_vars

\* C12: on every creation path, a create whose datePriseService is before
\* its dateAffect fails and writes nothing: no create step adds such a row
C12_ServiceBeforeAssignmentRejected ==
  [][last'.op \in CreateOps \cup {"Database.add_assignment"} =>
       /\ \A r \in AFFECTER' \ AFFECTER : ~(r.datePriseService < r.dateAffect)
       /\ last'.res # "ok" =>
            LIEU' = LIEU /\ EMPLOYE' = EMPLOYE /\ AFFECTER' = AFFECTER
  ]_vars

C14_RejectedWritesNothing ==
  LET Kept(r) == r.res = "fail" => Tables(r.c) = Tables(Conn) /\ r.c.disk = disk IN
  /\ \A data \in LocationForms : Kept(LocationController_create(Conn, data))
  /\ \A id \in LocIds \cup {L3}, data \in LocationUpdates :
       Kept(LocationController_update(Conn, id, data))
  /\ \A data \in EmployeeForms : Kept(EmployeeController_create(Conn, data))
  /\ \A id \in EmpIds \cup {E3}, data \in EmployeeUpdates :
       Kept(EmployeeController_update(Conn, id, data))
  /\ \A data \in ControllerForms : Kept(AssignmentController_create(Conn, data))
  /\ \A data \in Forms(AffIds) :
       \A r \in AssignmentController_update(Conn, data.numAffect, data) : Kept(r)

\* an update of an existing location with a blank name has just been
\* rejected
C14_Witness ==
  /\ last.op = "LocationController.update"
  /\ last.res = "fail"
  /\ \E l \in LIEU : l.idlieu = last.id

\* C15: _get_next_id(prefix, existing_ids) never returns a member of
\* existing_ids, whatever the identifiers (without the prefix, with a suffix
\* that is no number, with more than three digits), so that no create with
\* a generated identifier fails on the uniqueness of the identifier
C15_GeneratedIdIsNew ==
  LET ids == {r.numAffect : r \in AFFECTER}
      emps == {e.numEmp : e \in EMPLOYE}
  IN /\ \A prefix \in {<<"A">>, <<"E">>, <<"A", "0">>, <<>>} :
          \A existing_ids \in {ids, emps, ids \cup emps} :
            /\ _get_next_id(prefix, existing_ids) \notin existing_ids
            /\ get_next_id(prefix, existing_ids) \notin existing_ids
     /\ \A data \in GenForms : AssignmentController_create(Conn, data).res # "error"
     /\ \A emp \in EmpIds, nouv \in LocIds :
          EmployeeController_assign_location(Conn, emp, nouv, Today, Today, NoId).res
            # "error"
     /\ \A data \in EmployeeForms :
          data.numEmp = NoId => EmployeeController_create(Conn, data).res # "error"

\* a create has just succeeded under a generated identifier in a store that
\* holds an identifier of more than three digits and one whose suffix is no
\* number
C15_Witness ==
  /\ last.op = "AssignmentController.create"
  /\ last.res = "ok"
  /\ \E r \in AFFECTER : r.numAffect = last.id
  /\ \E r \in AFFECTER : r.numAffect # last.id /\ Len(r.numAffect) > 4
  /\ \E r \in AFFECTER : StartsWith(r.numAffect, <<"A">>) /\ ~IsInt(Tail(r.numAffect))

\* C16: when a caller of create reads the identifiers while the other has
\* read the same identifiers and not yet inserted, it computes the
\* identifier the other computed; of two calls that carried the same identifier to their INSERT,
\* exactly one has committed its row; a step that does not end a call in
\* success changes neither the rows nor any idlieu; and no two rows share
\* an identifier
C16_InterleavedCreates ==
  [][/\ \A k \in Callers :
          ( /\ calls[k].pc = "idle" /\ calls'[k].pc = "read"
            /\ calls[Other(k)].pc \in {"read", "checked"}
            /\ calls[Other(k)].existing_ids = calls'[k].existing_ids ) =>
            calls'[k].a.numAffect = calls[Other(k)].a.numAffect
     /\ (~ \E k \in Callers : calls[k].res # "ok" /\ calls'[k].res = "ok") =>
          LIEU' = LIEU /\ EMPLOYE' = EMPLOYE /\ AFFECTER' = AFFECTER /\ disk' = disk
     /\ ( /\ \A k \in Callers : calls'[k].pc = "done" /\ calls'[k].res \in {"ok", "error"}
          /\ \A j, k \in Callers : calls'[j].a.numAffect = calls'[k].a.numAffect ) =>
          /\ Cardinality({k \in Callers : calls'[k].res = "ok"}) = 1
          /\ \A k \in Callers :
               Cardinality({r \in AFFECTER' : r.numAffect = calls'[k].a.numAffect}) = 1
     /\ \A r, x \in AFFECTER' : r.numAffect = x.numAffect => r = x
  ]_vars

\* two calls for different employees computed the same identifier; one has
\* committed its row and the other has failed at its INSERT
C16_Witness ==
  /\ \A k \in Callers : calls[k].pc = "done"
  /\ \E k \in Callers :
       /\ calls[k].res = "ok" /\ calls[Other(k)].res = "error"
       /\ calls[k].a.numAffect = calls[Other(k)].a.numAffect
       /\ calls[k].a.numEmp # calls[Other(k)].a.numEmp
       /\ calls[k].a \in AFFECTER
       /\ \E e \in EMPLOYE :
            /\ e.numEmp = calls[Other(k)].a.numEmp
            /\ e.idlieu = calls[Other(k)].a.AncienLieu

\* C17 as stated: after a location create that succeeds, a get with the
\* identifier given to create returns a record with the name and the
\* province given to create
C17_RoundTrip ==
  \A data \in LocationForms :
    LET r == LocationController_create(Conn, data) IN
    r.res = "ok" =>
      \E l \in LocationController_get_by_id(r.c, data.idlieu) :
        l.design = data.design /\ l.province = data.province

\* C17, amended: after a location create that succeeds, a get with the
\* identifier given to create, stripped of the blanks around it, returns a
\* record with the name and the province given to create, each stripped of
\* the blanks around it
C17_RoundTripStripped ==
  \A data \in LocationForms :
    LET r == LocationController_create(Conn, data) IN
    r.res = "ok" =>
      /\ LocationController_get_by_id(r.c, Strip(data.idlieu)) # {}
      /\ \A l \in LocationController_get_by_id(r.c, Strip(data.idlieu)) :
           /\ l.idlieu = Strip(data.idlieu)
           /\ l.design = Strip(data.design)
           /\ l.province = Strip(data.province)

\* a create called with blanks around the identifier has just succeeded,
\* and the row is stored under the stripped identifier
C17_Witness ==
  /\ last.op = "LocationController.create"
  /\ last.res = "ok"
  /\ last.id # Strip(last.id)
  /\ \E l \in LIEU : l.idlieu = Strip(last.id)
  /\ LocationController_get_by_id(Conn, last.id) = {}

\* C18: no two rows of EMPLOYE have the same mail, and a create or an
\* update that would give an employee the mail of another employee fails
\* and leaves the store as it was
C18_MailUnique ==
  LET Refused(r) == r.res # "ok" /\ Tables(r.c) = Tables(Conn) /\ r.c.disk = disk IN
  /\ \A e, x \in EMPLOYE : e.mail = x.mail => e = x
  /\ \A e, x \in disk.E : e.mail = x.mail => e = x
  /\ \A data \in EmployeeForms :
       (\E e \in EMPLOYE : e.mail = Lower(Strip(data.mail))) =>
         Refused(EmployeeController_create(Conn, data))
  /\ \A id \in EmpIds \cup {E3}, data \in EmployeeUpdates :
       ( /\ data.mail # Absent
         /\ \E e \in EMPLOYE : e.numEmp # id /\ e.mail = Lower(Strip(data.mail)) ) =>
         Refused(EmployeeController_update(Conn, id, data))

\* creates and updates have moved the mails around: the first employee has
\* the mail of a request, and an employee created since has the mail the
\* first employee began with
C18_Witness ==
  /\ last.op \in {"EmployeeController.create", "EmployeeController.update"}
  /\ \E e \in EMPLOYE : e.numEmp = E1 /\ e.mail = MailOf(E3)
  /\ \E e \in EMPLOYE : e.numEmp = E3 /\ e.mail = MailOf(E1)
  /\ \E data \in EmployeeForms : \E e \in EMPLOYE : e.mail = Lower(Strip(data.mail))

\* C19: after any sequence of controller operations, every row of AFFECTER
\* names an existing employee in numEmp and existing locations in
\* AncienLieu and NouveauLieu
C19_AssignmentReferencesExist ==
  \A r \in AFFECTER :
    /\ \E e \in EMPLOYE : e.numEmp = r.numEmp
    /\ \E l \in LIEU : l.idlieu = r.AncienLieu
    /\ \E l \in LIEU : l.idlieu = r.NouveauLieu

\* C20: after any sequence of controller operations, the idlieu of every
\* employee is NULL or the identifier of a row of LIEU
C20_EmployeeLocationExists ==
  \A e \in EMPLOYE : e.idlieu = NULL \/ \E l \in LIEU : l.idlieu = e.idlieu

----------------------------------------------------------------------------
(* Opening the store: Database.__init__ connects to the file, creates the   *)
(* missing tables and seeds the demonstration rows.                         *)

SeedLieuId(n) == <<"L">> \o DecimalDigits(n)
SeedId(prefix, n) == prefix \o Format03d(n)

\* the rows of src/src/models/database.py: ten locations L1..L10, ten
\* employees E001..E010 and ten assignments A001..A010, the n-th assignment
\* being of the n-th employee. Row n of seed_rows gives the numbers of the
\* employee's idlieu (also the AncienLieu of the assignment) and of the
\* NouveauLieu, then dateAffect and datePriseService; the dates of 2023 are
\* day numbers before Today (days counted from 2024-01-01). Designations
\* and names are abbreviated as in the other rows of the model.
seed_rows ==
  << <<1, 2, 0 - 351, 0 - 334>>, <<1, 3, 0 - 325, 0 - 315>>,
     <<2, 4, 0 - 302, 0 - 292>>, <<3, 5, 0 - 264, 0 - 254>>,
     <<4, 6, 0 - 226, 0 - 214>>, <<2, 7, 0 - 200, 0 - 190>>,
     <<5, 8, 0 - 175, 0 - 165>>, <<6, 9, 0 - 149, 0 - 139>>,
     <<7, 10, 0 - 111, 0 - 101>>, <<8, 1, 0 - 75, 0 - 61>> >>

locations == {LieuRow(SeedLieuId(n)) : n \in 1..10}

employees ==
  {EmployeRow(SeedId(<<"E">>, n), SeedLieuId(seed_rows[n][1])) : n \in DOMAIN seed_rows}

assignments ==
  {AffecterRow(SeedId(<<"A">>, n), SeedId(<<"E">>, n),
               SeedLieuId(seed_rows[n][1]), SeedLieuId(seed_rows[n][2]),
               seed_rows[n][3], seed_rows[n][4]) : n \in DOMAIN seed_rows}

\* src/src/models/database.py, Database.seed_initial_data: each table is
\* filled when that table is empty, then one commit
Database_seed_initial_data(c) ==
  LET c1 == IF c.L = {} THEN [ImplicitBegin(c) EXCEPT !.L = locations] ELSE c
      c2 == IF c1.E = {} THEN [ImplicitBegin(c1) EXCEPT !.E = employees] ELSE c1
      c3 == IF c2.A = {} THEN [ImplicitBegin(c2) EXCEPT !.A = assignments] ELSE c2
  IN SqlCommit(c3)

\* the rows of src/database.py: five locations, five employees, five
\* assignments dated from the current day
root_rows ==
  << <<1, 2, Today - 30, Today - 25>>, <<1, 3, Today - 60, Today - 55>>,
     <<2, 4, Today - 15, Today - 10>>, <<3, 2, Today - 10, Today - 5>>,
     <<4, 1, Today - 5, Today>> >>

root_locations == {LieuRow(SeedLieuId(n)) : n \in 1..5}

root_employees ==
  {EmployeRow(SeedId(<<"E">>, n), SeedLieuId(root_rows[n][1])) : n \in DOMAIN root_rows}

root_assignments ==
  {AffecterRow(SeedId(<<"A">>, n), SeedId(<<"E">>, n),
               SeedLieuId(root_rows[n][1]), SeedLieuId(root_rows[n][2]),
               root_rows[n][3], root_rows[n][4]) : n \in DOMAIN root_rows}

\* src/database.py, Database.seed_initial_data: the three tables are filled
\* and committed when LIEU is empty. An employee or an assignment of the
\* file that carries a seeded key makes executemany raise IntegrityError out
\* of the constructor: nothing is committed and no connection is left.
root_seed_initial_data(c) ==
  IF c.L # {} THEN [c |-> c, res |-> "ok"]
  ELSE IF \/ \E e \in c.E, s \in root_employees : e.numEmp = s.numEmp \/ e.mail = s.mail
          \/ \E r \in c.A, s \in root_assignments : r.numAffect = s.numAffect
       THEN [c |-> c, res |-> "raise"]
       ELSE [c |-> SqlCommit([ImplicitBegin(c) EXCEPT !.L = root_locations,
                                                      !.E = @ \cup root_employees,
                                                      !.A = @ \cup root_assignments]),
             res |-> "ok"]

\* Database(db_file) of src/src/models/database.py on the file
OpenStore ==
  Apply(Database_seed_initial_data(DiskConn), "Database.__init__", NoId, "ok")

\* Database(db_file) of src/database.py on the file
OpenRootStore ==
  LET r == root_seed_initial_data(DiskConn) IN
  Apply(r.c, "database.Database.__init__", NoId, r.res)

OpenOps == {"Database.__init__", "database.Database.__init__"}

\* the files a closed program can have left: any rows of the small store
InitSeed ==
  /\ LIEU \in SUBSET {LieuRow(l) : l \in LocIds}
  /\ EMPLOYE \in SUBSET {EmployeRow(E1, L1), EmployeRow(E2, NULL)}
  /\ AFFECTER \in SUBSET {AffecterRow(A1, E1, L2, L1, Today, Today),
                          AffecterRow(A2, E2, L1, L2, Today - PastSpan, Today)}
  /\ disk = [L |-> LIEU, E |-> EMPLOYE, A |-> AFFECTER]
  /\ inTxn = FALSE
  /\ last = [op |-> "closed", id |-> NoId, res |-> "ok"]
  /\ calls = NoCalls
  /\ generated = {}

NextSeed ==
  \/ OpenStore
  \/ OpenRootStore

SpecSeed == InitSeed /\ [][NextSeed]_vars

\* C21: opening a store whose LIEU table holds at least one row inserts no
\* row into LIEU, EMPLOYE or AFFECTER, even when EMPLOYE or AFFECTER is empty
C21_SeedOnlyWhenLieuEmpty ==
  [][(last'.op \in OpenOps /\ last'.res = "ok" /\ LIEU # {}) =>
       (LIEU' = LIEU /\ EMPLOYE' = EMPLOYE /\ AFFECTER' = AFFECTER)]_vars

\* C26: after the seeding of an empty store, the idlieu of every seeded
\* employee is the NouveauLieu of the employee's most recent seeded assignment
C26_SeedConsistent ==
  [][(last'.op \in OpenOps /\ last'.res = "ok" /\ LIEU = {} /\ EMPLOYE = {} /\ AFFECTER = {}) =>
       \A e \in EMPLOYE' : e.idlieu \in LatestOrNull(AFFECTER', e.numEmp)]_vars

----------------------------------------------------------------------------
(* Updates and deletes through the three controllers, on a store that no    *)
(* create refills: the identifiers of removed rows are targets with no row  *)

ECUpdateSome == ECUpdateOf({E2, E3}, FewEmployeeUpdates)

NextMissing ==
  \/ LCUpdate
  \/ LCDelete
  \/ ECUpdateSome
  \/ ECDelete
  \/ ACUpdate
  \/ ACDelete

SpecMissing == Init /\ [][NextMissing]_vars

\* C22: an update or delete through a controller whose target identifier
\* has no row in its table (LIEU, EMPLOYE or AFFECTER) returns a not-found
\* failure and leaves the three tables unchanged
C22_MissingTargetNotFound ==
  [][( \/ /\ last'.op \in {"LocationController.update", "LocationController.delete"}
          /\ \A l \in LIEU : l.idlieu # last'.id
       \/ /\ last'.op \in {"EmployeeController.update", "EmployeeController.delete"}
          /\ \A e \in EMPLOYE : e.numEmp # last'.id
       \/ /\ last'.op \in {"AssignmentController.update", "AssignmentController.delete"}
          /\ \A r \in AFFECTER : r.numAffect # last'.id ) =>
       /\ last'.res = "fail"
       /\ LIEU' = LIEU /\ EMPLOYE' = EMPLOYE /\ AFFECTER' = AFFECTER]_vars

----------------------------------------------------------------------------
(* Creates and updates of locations and employees through the controllers   *)

NextDup ==
  \/ LCCreate
  \/ LCUpdateFew
  \/ ECCreate
  \/ ECUpdateFew

SpecDup == Init /\ [][NextDup]_vars

\* C23: LocationController.create and EmployeeController.create with an
\* identifier that a row already carries fail, and the rows of the three
\* tables, the existing row among them, keep all their field values
C23_DuplicateIdRefused ==
  [][( \/ /\ last'.op = "LocationController.create"
          /\ \E l \in LIEU : l.idlieu = Strip(last'.id)
       \/ /\ last'.op = "EmployeeController.create"
          /\ \E e \in EMPLOYE : e.numEmp = Strip(last'.id) ) =>
       /\ last'.res \in {"fail", "error"}
       /\ LIEU' = LIEU /\ EMPLOYE' = EMPLOYE /\ AFFECTER' = AFFECTER
       /\ disk' = disk /\ inTxn' = FALSE]_vars

\* the create of an employee whose identifier is taken and whose mail is
\* new has just been refused by the primary key of EMPLOYE, after an update
\* had changed the location of the employee who carries the identifier
C23_Witness ==
  /\ last.op = "EmployeeController.create"
  /\ last.res = "error"
  /\ \E e \in EMPLOYE : e.numEmp = Strip(last.id) /\ e.idlieu = L2
  /\ \E l \in LIEU : l.idlieu = L3

----------------------------------------------------------------------------
(* Assignment creates and updates dated today or tomorrow, the service      *)
(* beginning tomorrow                                                       *)

LaterDates == {Today, Today + 1}

LaterForms ==
  {AffecterRow(id, e, anc, nouv, da, dp) :
     id \in AffIds, e \in EmpIds, anc \in LocIds, nouv \in LocIds,
     da \in LaterDates, dp \in {Today + 1}}

ACCreateLater == ACCreateOf(LaterForms)

ECAssignLater ==
  \E emp \in EmpIds, nouv \in LocIds, da \in LaterDates, dp \in {Today + 1}, id \in AffIds :
    LET r == EmployeeController_assign_location(Conn, emp, nouv, da, dp, id) IN
    Apply(r.c, "EmployeeController.assign_location", id, r.res)

GuiAddLater ==
  \E a \in LaterForms :
    LET r == Gui_add_assignment(Conn, a) IN
    Apply(r.c, "main.add_assignment", a.numAffect, r.res)

GuiUpdateLater ==
  \E a \in LaterForms :
    \E r \in Gui_update_assignment(Conn, a) :
      Apply(r.c, "main.update_assignment", a.numAffect, r.res)

NextDate ==
  \/ ACCreateLater
  \/ ECAssignLater
  \/ GuiAddLater
  \/ GuiUpdateLater

SpecDate == Init /\ [][NextDate]_vars

\* C24: no assignment create or update writes a row whose dateAffect is
\* later than the current date: every row a step adds to AFFECTER, or
\* changes in it, is dated today or earlier
C24_NoFutureAssignmentDate ==
  [][\A r \in AFFECTER' : r \notin AFFECTER => r.dateAffect <= Today]_vars

\* C25: a create that failed on a uniqueness conflict leaves no transaction
\* open on the shared connection: right after it, every valid assignment
\* create, which begins with BEGIN TRANSACTION, has the outcome it has on a
\* connection without a transaction over the same committed tables
C25_FailedCreateLeavesNoTransaction ==
  (last.op = "Database.add_location" /\ last.res = "error") =>
    /\ ~inTxn
    /\ \A a \in CheckedForms :
         /\ Database_add_assignment(Conn, a) = Database_add_assignment(DiskConn, a)
         /\ Gui_add_assignment(Conn, a) = Gui_add_assignment(DiskConn, a)

----------------------------------------------------------------------------
(* The two deletes of an assignment, on stores where creates have moved     *)
(* employees and updates of employees have moved them elsewhere             *)

NextDelete ==
  \/ ACCreateFew
  \/ ECUpdateFew
  \/ ACDelete
  \/ DbDeleteAssignment

SpecDelete == Init /\ [][NextDelete]_vars

\* what a caller sees of a delete: the success flag it returns, or that it
\* raises, the assignment table and the idlieu of every employee
DeleteOutcome(r) ==
  [flag |-> IF r.res = "ok" THEN "True" ELSE IF r.res = "raise" THEN "raise" ELSE "False",
   AFFECTER |-> r.c.A,
   idlieu |-> {<<e.numEmp, e.idlieu>> : e \in r.c.E}]

\* C27: in every store state and for every assignment identifier,
\* AssignmentController.delete and Database.delete_assignment return the
\* same success flag and leave the same assignment table and the same
\* idlieu of every employee
C27_DeletesAgree ==
  \A id \in AffIds :
    {DeleteOutcome(r) : r \in AssignmentController_delete(Conn, id)} =
    {DeleteOutcome(r) : r \in Database_delete_assignment(Conn, id)}

\* the three operations of AssignmentController, next to updates that put
\* an employee without assignment at a location
NextFrame ==
  \/ ACCreateFew
  \/ ACUpdate
  \/ ACDelete
  \/ ECUpdateFew

SpecFrame == Init /\ [][NextFrame]_vars

\* C28: create, update and delete of AssignmentController leave LIEU as it
\* was, leave every field of every employee other than idlieu as it was, and
\* change the idlieu of no employee other than the one named by the
\* assignment row the call wrote or deleted
C28_AssignmentFrame ==
  [][last'.op \in AssignmentControllerOps =>
       /\ LIEU' = LIEU
       /\ {e.numEmp : e \in EMPLOYE'} = {e.numEmp : e \in EMPLOYE}
       /\ Cardinality(EMPLOYE') = Cardinality(EMPLOYE)
       /\ \A e \in EMPLOYE : \A f \in EMPLOYE' :
            f.numEmp = e.numEmp =>
              /\ f = [e EXCEPT !.idlieu = f.idlieu]
              /\ f.idlieu # e.idlieu =>
                   \E r \in (AFFECTER' \ AFFECTER) \cup (AFFECTER \ AFFECTER') :
                     r.numAffect = last'.id /\ r.numEmp = e.numEmp
  ]_vars

\* a create has just moved the employee its row names, and another employee
\* is at a location that is not the destination of the row
C28_Witness ==
  /\ last.op = "AssignmentController.create"
  /\ last.res = "ok"
  /\ \E r \in AFFECTER : \E e \in EMPLOYE : \E o \in EMPLOYE :
       /\ r.numAffect = last.id
       /\ e.numEmp = r.numEmp /\ e.idlieu = r.NouveauLieu
       /\ o.numEmp # e.numEmp /\ o.idlieu \notin {NULL, r.NouveauLieu}

----------------------------------------------------------------------------
(* Creates with generated identifiers and deletes, the generated            *)
(* identifiers being recorded                                               *)

\* AssignmentController.create without numAffect
ACCreateRecorded ==
  \E data \in GenForms :
    /\ Cardinality(AFFECTER) < MaxRows
    /\ NextNum(<<"A">>, {r.numAffect : r \in AFFECTER}) <= MaxRows
    /\ LET r == AssignmentController_create(Conn, data) IN
       /\ LIEU' = r.c.L /\ EMPLOYE' = r.c.E /\ AFFECTER' = r.c.A
       /\ disk' = r.c.disk /\ inTxn' = r.c.txn
       /\ last' = [op |-> "AssignmentController.create", id |-> r.id, res |-> r.res]
       /\ generated' = IF r.res = "ok" THEN generated \cup {r.id} ELSE generated
       /\ calls' = calls

NextIds ==
  \/ ACCreateRecorded
  \/ ACDelete
  \/ DbDeleteAssignment
  \/ GuiDeleteAssignment
  \/ ECUpdateFew

SpecIds == Init /\ [][NextIds]_vars

\* C29: in a history of assignment creates with generated identifiers and
\* of deletes, the identifier a create generates is none of the identifiers
\* generated earlier in the history, deleted since or not
C29_GeneratedNeverReused ==
  [][(last'.op = "AssignmentController.create" /\ last'.res = "ok") =>
       last'.id \notin generated]_vars

\* C30: in the single-file GUI, a delete of an assignment after which its
\* employee has no assignment leaves the idlieu of that employee, and of
\* every other employee, as it was; a delete changes an idlieu only for the
\* employee of the deleted row and only when an assignment of that employee
\* remains, whose NouveauLieu is the new value
C30_GuiDeleteKeepsLocation ==
  [][\A r \in AFFECTER :
       ( /\ last'.op = "main.delete_assignment"
         /\ last'.id = r.numAffect
         /\ last'.res = "ok" ) =>
         /\ AFFECTER' = AFFECTER \ {r}
         /\ \A e \in EMPLOYE : \E f \in EMPLOYE' : f = [e EXCEPT !.idlieu = f.idlieu]
         /\ \A e \in EMPLOYE : \A f \in EMPLOYE' :
              (f.numEmp = e.numEmp /\ f.idlieu # e.idlieu) =>
                /\ e.numEmp = r.numEmp
                /\ \E x \in AFFECTER' : x.numEmp = r.numEmp /\ x.NouveauLieu = f.idlieu
  ]_vars

\* the last assignment of the table has just been deleted, and both
\* employees are still at the location their assignments had moved them to
C30_Witness ==
  /\ last.op = "main.delete_assignment"
  /\ last.res = "ok"
  /\ AFFECTER = {}
  /\ \A e \in EMPLOYE : e.idlieu = L2

====
